---- MODULE Spec2Model ----
(***************************************************************************)
(* Model of the video-user-interaction viewer: the App component's        *)
(* realtime interaction subscription with its batched video join          *)
(* (web-interaction/src/App.tsx) and the backend's                         *)
(* GET /api/users/:userId/interactions handler (server index.js); and the  *)
(* Dashboard component's cache of the category counts (Dashboard.tsx, in   *)
(* its two variants) with the GET /api/video-categories handler; and the   *)
(* requests for recommendations (App) and for the interaction summary      *)
(* (Dashboard) with the state they set when they are answered.             *)
(***************************************************************************)
EXTENDS Integers, Sequences, FiniteSets, TLC

\* ------------------------------------------------------------------ bounds
MaxDistinct == 21   \* largest number of distinct video ids a user interacted with
MaxEpoch    == 2    \* user selections made during one run
MaxTasks    == 2    \* snapshot callbacks suspended in their join at once
MaxScan     == 3    \* records of the collection a category scan reads
MaxTicks    == 2    \* times the clock is advanced during one run
MaxFetches  == 2    \* fetches of /video-categories in flight at once

\* ------------------------------------------------------- program constants
BatchLimit   == 10   \* Firestore 'in' query: at most 10 values
QueryLimit   == 20   \* limit(20) of the frontend's interactions query
DefaultLimit == 20   \* parseInt(req.query.limit) || 20
CATEGORY_CACHE_EXPIRY == 3600000   \* 60 * 60 * 1000 ms

\* The amounts of time that pass between two steps of the dashboard: a
\* second, an hour less a second, and an hour and 100 seconds.
Steps == { 1000, CATEGORY_CACHE_EXPIRY - 1000, CATEGORY_CACHE_EXPIRY + 100000 }

\* A snapshot holds at most QueryLimit documents, so a join of the page
\* cuts at most this many batches.
MaxBatches == (QueryLimit + BatchLimit - 1) \div BatchLimit

Users  == {"u1", "u2"}
NoUser == ""

\* ------------------------------------------------------------ data model
\* JavaScript's null and undefined, and a content record of the
\* shorts-recommend-system collection.
Null      == [kind |-> "null"]
Undefined == [kind |-> "undefined"]
VideoDoc(v) == [kind |-> "doc", id |-> v]

Min(a, b) == IF a < b THEN a ELSE b

\* The content collection of a run: the videos with an odd id exist, an
\* even id is a broken reference.
VideoIds == 1..MaxDistinct
ContentChoices == { {v \in VideoIds : v % 2 = 1} }

\* An interaction document of users/<u>/interactions.
InteractionDoc(i, t, v) == [interactionId |-> i, time |-> t, videoId |-> v]

\* A user's interactions sub-collection in the order of its document ids,
\* oldest first.  Read newest first it has k interactions on k distinct
\* videos followed (further back in time) by d interactions on videos
\* already seen.
RawDocs(k, d) ==
  [j \in 1..(k + d) |->
     LET r == k + d + 1 - j
     IN InteractionDoc(j, j, IF r <= k THEN r ELSE r - k)]

\* doc put into a list sorted by time descending, before the first
\* document older than it.
InsertByTime(sorted, doc) ==
  LET older == { j \in DOMAIN sorted : sorted[j].time < doc.time }
      pos   == IF older = {} THEN Len(sorted) + 1
               ELSE CHOOSE j \in older : \A x \in older : j <= x
  IN SubSeq(sorted, 1, pos - 1) \o << doc >> \o SubSeq(sorted, pos, Len(sorted))

\* orderBy("time", "desc")
RECURSIVE OrderByTimeDesc(_)
OrderByTimeDesc(docs) ==
  IF docs = << >> THEN << >>
  ELSE InsertByTime(OrderByTimeDesc(Tail(docs)), Head(docs))

\* The first n documents of the collection in its own order.
MutLimitTo(docs, n) == SubSeq(docs, 1, Min(n, Len(docs)))

\* orderBy("time", "desc").limit(n)
LimitTo(docs, n) ==
  LET sorted == OrderByTimeDesc(docs)
  IN SubSeq(sorted, 1, Min(n, Len(sorted)))

\* The sub-collections a run is explored with: either one that changes
\* between an empty one, a repeated video and two batches of ids, or one
\* fixed collection: an empty one, or one on any number of videos up to
\* MaxDistinct whose oldest interaction repeats the newest one's video.
ChangingStore == { RawDocs(0, 0), RawDocs(1, 1), RawDocs(BatchLimit + 1, 1) }

StoredChoices ==
  { ChangingStore, { RawDocs(0, 0) } }
    \cup { { RawDocs(k, 1) } : k \in 1..MaxDistinct }

\* --------------------------------------------------------- pure functions
Range(s) == { s[i] : i \in DOMAIN s }

\* [...new Set(ids)]: the distinct values in order of first occurrence.
RECURSIVE Distinct(_)
Distinct(s) ==
  IF s = << >> THEN << >>
  ELSE LET init == Distinct(SubSeq(s, 1, Len(s) - 1))
           x    == s[Len(s)]
       IN IF x \in Range(init) THEN init ELSE Append(init, x)

VideoIdsOf(docs) == Distinct([j \in DOMAIN docs |-> docs[j].videoId])

\* A slice that takes the element at index to as well.
MutSlice(s, from, to) == SubSeq(s, from + 1, Min(to + 1, Len(s)))

\* Array.prototype.slice(from, to) with 0-based, end-exclusive indices.
Slice(s, from, to) == SubSeq(s, from + 1, Min(to, Len(s)))

\* for (let i = 0; i < videoIds.length; i += 10) batches.push(slice(i, i+10))
RECURSIVE BatchesFrom(_, _)
BatchesFrom(ids, i) ==
  IF i < Len(ids)
  THEN << Slice(ids, i, i + BatchLimit) >> \o BatchesFrom(ids, i + BatchLimit)
  ELSE << >>

\* The loop running while i <= videoIds.length.
RECURSIVE BatchesUpTo(_, _)
BatchesUpTo(ids, i) ==
  IF i <= Len(ids)
  THEN << Slice(ids, i, i + BatchLimit) >> \o BatchesUpTo(ids, i + BatchLimit)
  ELSE << >>

MutBatches(ids) == BatchesUpTo(ids, 0)

Batches(ids) == BatchesFrom(ids, 0)

\* The query without its where clause.
MutQueryIn(content, batch) == { VideoDoc(v) : v \in content }

\* where("id", "in", batch) on the content collection.
QueryIn(content, batch) == { VideoDoc(v) : v \in (content \cap Range(batch)) }

\* A Map<string, SRSVideoDetails> is a function from its keys.
EmptyMap == << >>

\* snapshot.forEach(doc => map.set(doc.data().id, doc.data()))
MapSetAll(map, docs) ==
  [v \in (DOMAIN map) \cup { r.id : r \in docs } |->
     IF \E r \in docs : r.id = v THEN CHOOSE r \in docs : r.id = v ELSE map[v]]

MapGet(map, v) == IF v \in DOMAIN map THEN map[v] ELSE Undefined

\* The lookup's result used as it is.
MutOrNull(x) == x

\* a || null
OrNull(x) == IF x = Undefined \/ x = Null THEN Null ELSE x

\* interactions.map(i => ({...i, video: map.get(i.videoId) || null}))
Decorate(docs, map) ==
  [j \in DOMAIN docs |->
     [interactionId |-> docs[j].interactionId,
      time          |-> docs[j].time,
      videoId       |-> docs[j].videoId,
      video         |-> OrNull(MapGet(map, docs[j].videoId))]]

\* snapshot.empty
IsEmpty(docs) == docs = << >>

\* Only the first batch's documents are put into the map.
MutMergeResults(content, batches, n) ==
  IF n = 0 THEN EmptyMap ELSE MapSetAll(EmptyMap, QueryIn(content, batches[1]))

\* The merged id -> record mapping once every batch query has answered:
\* results.forEach(snapshot => snapshot.forEach(doc => map.set(id, data))).
RECURSIVE MergeResults(_, _, _)
MergeResults(content, batches, n) ==
  IF n = 0 THEN EmptyMap
  ELSE MapSetAll(MergeResults(content, batches, n - 1),
                 QueryIn(content, batches[n]))

\* What fetchVideoDetails returns after its catch block: the map is filled
\* only after Promise.all resolved, so a rejected lookup leaves it empty.
MapAfterCatch == EmptyMap

\* ---------------------------------------------------- category aggregation
\* A record of the shorts-recommend-system collection as the scan reads it:
\* with a category field (possibly the empty string) or without one.
CategoryNames == { "Kids", "Sports", "Unknown", "" }
ContentShapes ==
  { [title |-> "A"] } \cup { [title |-> "A", category |-> c] : c \in CategoryNames }

\* The collections a scan can read: up to MaxScan records in scan order.
Collections == UNION { [1..n -> ContentShapes] : n \in 0..MaxScan }

\* The record's category used as the bucket whatever it is.
MutCategoryOf(video) ==
  IF "category" \in DOMAIN video THEN video.category ELSE "Unknown"

\* video.category || 'Unknown'
CategoryOf(video) ==
  IF "category" \in DOMAIN video /\ video.category # "" THEN video.category
  ELSE "Unknown"

\* const categories = {}
NoCounts == [k \in {} |-> 0]

\* categories[category] || 0
CountOf(categories, category) ==
  IF category \in DOMAIN categories THEN categories[category] ELSE 0

\* A bucket that is set instead of incremented.
MutIncrement(categories, category) ==
  [k \in DOMAIN categories \cup { category } |->
     IF k = category THEN 1 ELSE categories[k]]

\* categories[category] = (categories[category] || 0) + 1
Increment(categories, category) ==
  [k \in DOMAIN categories \cup { category } |->
     IF k = category THEN CountOf(categories, category) + 1 ELSE categories[k]]

\* snapshot.forEach(doc => { ... }) over the first n records of the scan.
RECURSIVE CountCategories(_, _)
CountCategories(snapshot, n) ==
  IF n = 0 THEN NoCounts
  ELSE Increment(CountCategories(snapshot, n - 1), CategoryOf(snapshot[n]))

\* The summaries /video-categories answers the dashboard with in a run:
\* those of an empty collection and of a collection of two records.
Summaries ==
  { CountCategories(c, Len(c)) :
      c \in { << >>,
              << [title |-> "A", category |-> "Kids"], [title |-> "A"] >> } }

\* ------------------------------------------------------- the cache's slot
\* The keys of an object in the order they are written out.
RECURSIVE KeySeq(_)
KeySeq(S) ==
  IF S = {} THEN << >>
  ELSE LET k == CHOOSE x \in S : TRUE IN << k >> \o KeySeq(S \ { k })

\* const newCache = { data: data, timestamp: Date.now() } with a constant
\* timestamp.
MutNewCache(data, t) == [data |-> data, timestamp |-> 0]

\* const newCache: CategoryCache = { data: data, timestamp: Date.now() }
NewCache(data, t) == [data |-> data, timestamp |-> t]

\* JSON.stringify(newCache): the text lists the entries of data as
\* key/value pairs, then the timestamp.
JSONStringify(cache) ==
  LET keys == KeySeq(DOMAIN cache.data)
  IN [json |-> << [j \in 1..Len(keys) |-> << keys[j], cache.data[keys[j]] >>],
                  cache.timestamp >>]

\* A parse that loses the counts.
MutJSONParse(text) == [data |-> NoCounts, timestamp |-> text.json[2]]

\* JSON.parse(cachedDataString)
JSONParse(text) ==
  LET pairs == text.json[1]
  IN [data |-> [k \in { pairs[j][1] : j \in DOMAIN pairs } |->
                  LET j == CHOOSE i \in DOMAIN pairs : pairs[i][1] = k
                  IN pairs[j][2]],
      timestamp |-> text.json[2]]

\* An invalidate that leaves the slot as it is.
MutRemoveItem(storage) == storage

\* localStorage.removeItem(CATEGORY_CACHE_KEY); getItem of an absent key
\* returns null.
RemoveItem(storage) == Null

\* The two Dashboard.tsx of the repository: the one that keeps a cached
\* summary for ever and the one that lets it expire.
Variants == { "forever", "expiring" }

\* A stored string that is not JSON, and so not what the page wrote.
Undecodable == [text |-> "<!doctype html>"]

\* JSON.parse(storage) returns.
Decodable(storage) == "json" \in DOMAIN storage

\* The cache read of fetchCategoryData finds a string and JSON.parse
\* throws a SyntaxError on it, inside the try block.
ParseThrows(variant, ignoreCache, storage) ==
  /\ ~(variant = "expiring" /\ ignoreCache)
  /\ storage # Null
  /\ ~Decodable(storage)

\* The cache read of fetchCategoryData: the stored entry is used when
\* there is one and, in the expiring variant, when the cache is not
\* ignored and the entry is younger than CATEGORY_CACHE_EXPIRY.
CacheHit(variant, ignoreCache, storage, t) ==
  /\ ~(variant = "expiring" /\ ignoreCache)
  /\ storage # Null
  /\ Decodable(storage)
  /\ variant = "expiring" => t - JSONParse(storage).timestamp < CATEGORY_CACHE_EXPIRY

\* A fetch of /video-categories issued even on a hit.
MutIssued(hit, fetches, ignoreCache) ==
  Append(fetches, [ignoreCache |-> ignoreCache, live |-> TRUE])

\* await fetch(`${BACKEND_API_URL}/video-categories`), which a hit returns
\* before.
Issued(hit, fetches, ignoreCache) ==
  IF hit THEN fetches
  ELSE Append(fetches, [ignoreCache |-> ignoreCache, live |-> TRUE])

\* A failed fetch that clears the slot.
MutStorageAfterResponse(ok, storage, data, t) ==
  IF ok THEN JSONStringify(NewCache(data, t)) ELSE Null

\* localStorage after the fetch settled: setItem on success, untouched by
\* the catch block.
StorageAfterResponse(ok, storage, data, t) ==
  IF ok THEN JSONStringify(NewCache(data, t)) ELSE storage

\* setError(prev => prev?.includes(message) ? null : prev); error is kept
\* as the set of the kinds of message it includes ({} = null).
ErrorCleared(err, kind) == IF kind \in err THEN {} ELSE err

\* setError(prev => prev ? `${prev}\n${message}` : message)
ErrorAdded(err, kind) == err \cup { kind }

\* ------------------------------------------------------------------ state
VARIABLES
  content,              \* ids present in the shorts-recommend-system collection
  stored,               \* the contents users' interactions sub-collections take
  be,                   \* the backend's /interactions handler: its locals and reply
  mounted,              \* the App component is mounted
  users,                \* useState users (the Autocomplete options)
  loadingUsers,         \* useState loadingUsers
  usersReq,             \* the fetchUsers request: "pending" or "done"
  selectedUser,         \* useState selectedUser
  interactions,         \* useState interactions
  loadingInteractions,  \* useState loadingInteractions
  error,                \* useState error: the messages joined by "\n" (<<>> = null)
  epoch,                \* runs of the selectedUser effect with a user selected
  unsubscribe,          \* the effect closure's unsubscribe: a subscription or 0 (no-op)
  listeners,            \* Firestore's registered snapshot listeners
  lastCall,             \* the subscription whose success callback ran last (0: none)
  lastSnapshot,         \* the documents of the snapshot that callback was given
  tasks,                \* snapshot callbacks suspended at await fetchVideoDetails,
                        \* in the order they were invoked
  recommendedVideos,    \* useState recommendedVideos
  loadingRecommendations,  \* useState loadingRecommendations
  recommendations,      \* the users whose fetchRecommendations awaits its response
  dashboard,            \* the Dashboard.tsx variant in use ("none": not opened yet)
  displayedSection,     \* Dashboard useState displayedSection
  dashUsers,            \* the Dashboard's fetchUsers: "pending", "loaded", "failed"
  now,                  \* Date.now()
  ticks,                \* times the clock was advanced
  localStorage,         \* the item stored under CATEGORY_CACHE_KEY (Null: none)
  categoryCountsFromAPI,  \* Dashboard useState categoryCountsFromAPI
  loadingCategoryCounts,  \* Dashboard useState loadingCategoryCounts
  dashError,            \* Dashboard useState error: the kinds of message it includes
  categoryFetches,      \* the fetches of /video-categories in flight
  logged,               \* the last message fetchCategoryData wrote to the console
  dashSelected,         \* Dashboard useState selectedUser
  interactionSummary,   \* Dashboard useState interactionSummary
  loadingInteractionSummary,  \* Dashboard useState loadingInteractionSummary
  summaryFetches        \* the fetches of /interaction-summary in flight

appVars == << mounted, users, loadingUsers, usersReq, selectedUser, interactions,
              loadingInteractions, error, epoch, unsubscribe, listeners, lastCall, lastSnapshot,
              tasks, recommendedVideos, loadingRecommendations, recommendations >>

recVars == << recommendedVideos, loadingRecommendations, recommendations >>

dashVars == << dashboard, displayedSection, dashUsers, now, ticks, localStorage,
               categoryCountsFromAPI, loadingCategoryCounts, dashError,
               categoryFetches, logged, dashSelected, interactionSummary,
               loadingInteractionSummary, summaryFetches >>

summaryVars == << dashSelected, interactionSummary, loadingInteractionSummary,
                  summaryFetches >>

vars == << content, stored, be, appVars, dashVars >>

\* A registered listener of onSnapshot(interactionsQuery, ...).
Listener(e, u) == [epoch |-> e, user |-> u]

\* A cleanup that does not call unsubscribe.
MutUnsubscribed(ls, sub) == ls

\* The cleanup's unsubscribe(): removes the effect's own listener; the
\* initial closure () => {} removes nothing.
Unsubscribed(ls, sub) == { l \in ls : l.epoch # sub }

\* fetchVideoDetails up to its await: the batches are cut and one getDocs
\* is started per batch inside batches.map, before Promise.all is awaited.
StartedByFetch(batches) == Len(batches)

RemoveAt(s, i) == SubSeq(s, 1, i - 1) \o SubSeq(s, i + 1, Len(s))

\* The callback's state when it suspends in the join.
NewTask(l, docs) ==
  LET batches == Batches(VideoIdsOf(docs))
  IN [epoch |-> l.epoch, user |-> l.user, docs |-> docs,
      batches |-> batches, issued |-> StartedByFetch(batches),
      status |-> [b \in 1..Len(batches) |-> "pending"]]

\* The handler's locals and its reply; no request is being handled at first.
BeIdle ==
  [pc |-> "idle", raw |-> << >>, limit |-> 0, docs |-> << >>, ids |-> << >>,
   i |-> 0, queries |-> << >>, resolved |-> 0, videosMap |-> << >>,
   status |-> 0, body |-> << >>, route |-> "", snapshot |-> << >>,
   categories |-> NoCounts]

\* The handler and the browser share no state (each reads Firestore on its
\* own), so a run is explored with one of the two active: the server
\* handles requests while the page has not loaded, the page runs while the
\* server has handled none; and both only while the dashboard, whose state
\* is its own, has not been opened.
BrowserRuns == be = BeIdle /\ dashboard = "none"
ServerRuns  == usersReq = "pending" /\ mounted /\ dashboard = "none"

Init ==
  /\ content \in ContentChoices
  /\ stored \in StoredChoices
  /\ be = BeIdle
  /\ mounted = TRUE
  /\ users = {}
  /\ loadingUsers = TRUE
  /\ usersReq = "pending"
  /\ selectedUser = NoUser
  /\ interactions = << >>
  /\ loadingInteractions = FALSE
  /\ error = << >>
  /\ epoch = 0
  /\ unsubscribe = 0
  /\ listeners = {}
  /\ lastCall = 0
  /\ lastSnapshot = << >>
  /\ tasks = << >>
  /\ recommendedVideos = << >>
  /\ loadingRecommendations = FALSE
  /\ recommendations = << >>
  /\ dashboard = "none"
  /\ displayedSection = "none"
  /\ dashUsers = "pending"
  /\ now = 0
  /\ ticks = 0
  /\ localStorage = Null
  /\ categoryCountsFromAPI = Null
  /\ loadingCategoryCounts = FALSE
  /\ dashError = {}
  /\ categoryFetches = << >>
  /\ logged = "none"
  /\ dashSelected = NoUser
  /\ interactionSummary = Null
  /\ loadingInteractionSummary = FALSE
  /\ summaryFetches = << >>

\* fetchUsers settles (mount effect).  A state update of an unmounted
\* component is dropped by React.
UsersResolve(ok) ==
  /\ BrowserRuns
  /\ UNCHANGED dashVars
  /\ usersReq = "pending"
  /\ usersReq' = "done"
  /\ IF mounted
     THEN /\ users' = IF ok THEN Users ELSE users
          /\ error' = IF ok THEN error ELSE << "users" >>
          /\ loadingUsers' = FALSE
     ELSE UNCHANGED << users, error, loadingUsers >>
  /\ UNCHANGED << content, stored, be, mounted, selectedUser, interactions, loadingInteractions,
                  epoch, unsubscribe, listeners, lastCall, lastSnapshot, tasks, recVars >>

\* handleUserChange picks another user: the previous effect's cleanup runs,
\* then the effect body with selectedUser = u.  throws: collection/query/
\* onSnapshot threw during listener setup.
SelectUser(u, throws) ==
  /\ BrowserRuns
  /\ UNCHANGED dashVars
  /\ mounted
  /\ u \in users
  /\ u # selectedUser
  /\ epoch < MaxEpoch
  /\ selectedUser' = u
  /\ epoch' = epoch + 1
  /\ IF throws
     THEN /\ listeners' = Unsubscribed(listeners, unsubscribe)
          /\ unsubscribe' = 0
          /\ error' = << "setup" >>
          /\ loadingInteractions' = FALSE
     ELSE /\ listeners' = Unsubscribed(listeners, unsubscribe)
                            \cup { Listener(epoch + 1, u) }
          /\ unsubscribe' = epoch + 1
          /\ error' = << >>
          /\ loadingInteractions' = TRUE
  /\ interactions' = << >>
  /\ recommendedVideos' = << >>
  /\ loadingRecommendations' = TRUE
  /\ recommendations' = Append(recommendations, u)
  /\ UNCHANGED << content, stored, be, mounted, users, loadingUsers, usersReq, lastCall,
                  lastSnapshot, tasks >>

\* handleUserChange clears the selection: cleanup, then the else branch.
Deselect ==
  /\ BrowserRuns
  /\ UNCHANGED dashVars
  /\ mounted
  /\ selectedUser # NoUser
  /\ selectedUser' = NoUser
  /\ listeners' = Unsubscribed(listeners, unsubscribe)
  /\ unsubscribe' = 0
  /\ interactions' = << >>
  /\ recommendedVideos' = << >>
  /\ error' = << >>
  /\ UNCHANGED << content, stored, be, mounted, users, loadingUsers, usersReq,
                  loadingInteractions, epoch, lastCall, lastSnapshot, tasks,
                  loadingRecommendations, recommendations >>

\* The route changes away from App: the effect's cleanup runs and React
\* discards the component's state.
Unmount ==
  /\ BrowserRuns
  /\ UNCHANGED dashVars
  /\ mounted
  /\ mounted' = FALSE
  /\ listeners' = Unsubscribed(listeners, unsubscribe)
  /\ unsubscribe' = 0
  /\ users' = {}
  /\ loadingUsers' = TRUE
  /\ selectedUser' = NoUser
  /\ interactions' = << >>
  /\ loadingInteractions' = FALSE
  /\ error' = << >>
  /\ recommendedVideos' = << >>
  /\ loadingRecommendations' = FALSE
  /\ UNCHANGED << content, stored, be, usersReq, epoch, lastCall, lastSnapshot, tasks,
                  recommendations >>

\* Firestore delivers a snapshot of the sub-collection's present content
\* to a registered listener: the success callback runs up to its first
\* await (or to its return when the snapshot is empty).  fetchVideoDetails
\* returns its empty map without a query when it is given no id, and the
\* callback goes on in the same turn.
Notify(l, raw) ==
  /\ BrowserRuns
  /\ UNCHANGED dashVars
  /\ l \in listeners
  /\ raw \in stored
  /\ lastCall' = l.epoch
  /\ LET docs == LimitTo(raw, QueryLimit)
     IN /\ lastSnapshot' = docs
        /\ IF IsEmpty(docs)
           THEN /\ IF mounted
                   THEN /\ interactions' = << >>
                        /\ loadingInteractions' = FALSE
                   ELSE UNCHANGED << interactions, loadingInteractions >>
                /\ UNCHANGED tasks
           ELSE IF Len(VideoIdsOf(docs)) = 0
           THEN /\ IF mounted
                   THEN /\ interactions' = Decorate(docs, EmptyMap)
                        /\ loadingInteractions' = FALSE
                   ELSE UNCHANGED << interactions, loadingInteractions >>
                /\ UNCHANGED tasks
           ELSE /\ Len(tasks) < MaxTasks
                /\ tasks' = Append(tasks, NewTask(l, docs))
                /\ UNCHANGED << interactions, loadingInteractions >>
  /\ UNCHANGED << content, stored, be, mounted, users, loadingUsers, usersReq,
                  selectedUser, error, epoch, unsubscribe, listeners, recVars >>

\* The callback i resumes after await fetchVideoDetails with the map it got.
Resume(i, map) ==
  /\ tasks' = RemoveAt(tasks, i)
  /\ IF mounted
     THEN /\ interactions' = Decorate(tasks[i].docs, map)
          /\ loadingInteractions' = FALSE
     ELSE UNCHANGED << interactions, loadingInteractions >>

\* One getDocs of the suspended join i settles.  Promise.all rejects on the
\* first rejection and resolves with the last fulfilment; the rest of
\* fetchVideoDetails and of the callback run in the same turn.
BatchSettles(i, b, ok) ==
  /\ BrowserRuns
  /\ UNCHANGED dashVars
  /\ i \in DOMAIN tasks
  /\ b \in 1..tasks[i].issued
  /\ tasks[i].status[b] = "pending"
  /\ IF ~ok
     THEN Resume(i, MapAfterCatch)
     ELSE IF \A c \in (1..Len(tasks[i].batches)) \ { b } : tasks[i].status[c] = "ok"
          THEN Resume(i, MergeResults(content, tasks[i].batches,
                                      Len(tasks[i].batches)))
          ELSE /\ tasks' = [tasks EXCEPT ![i].status[b] = "ok"]
               /\ UNCHANGED << interactions, loadingInteractions >>
  /\ UNCHANGED << content, stored, be, mounted, users, loadingUsers, usersReq,
                  selectedUser, error, epoch, unsubscribe, listeners, lastCall,
                  lastSnapshot, recVars >>

\* Firestore reports a listener error: the listener ends and the error
\* callback runs.
ListenerError(l) ==
  /\ BrowserRuns
  /\ UNCHANGED dashVars
  /\ l \in listeners
  /\ listeners' = listeners \ { l }
  /\ IF mounted
     THEN /\ error' = Append(error, "realtime")
          /\ interactions' = << >>
          /\ loadingInteractions' = FALSE
     ELSE UNCHANGED << error, interactions, loadingInteractions >>
  /\ UNCHANGED << content, stored, be, mounted, users, loadingUsers, usersReq, selectedUser,
                  epoch, unsubscribe, lastCall, lastSnapshot, tasks, recVars >>

\* What GET /api/users/:userId/recommendations answers for user u.
RecommendationsOf(u) == << [video_guid |-> u] >>

\* The fetch of fetchRecommendations(userId) number i settles: the rest of
\* the function runs, whoever is selected by now.
RecommendationsSettle(i, ok) ==
  /\ BrowserRuns
  /\ UNCHANGED dashVars
  /\ i \in DOMAIN recommendations
  /\ recommendations' = RemoveAt(recommendations, i)
  /\ IF mounted
     THEN /\ recommendedVideos' = IF ok THEN RecommendationsOf(recommendations[i])
                                  ELSE << >>
          /\ error' = IF ok THEN error ELSE Append(error, "recommendations")
          /\ loadingRecommendations' = FALSE
     ELSE UNCHANGED << recommendedVideos, error, loadingRecommendations >>
  /\ UNCHANGED << content, stored, be, mounted, users, loadingUsers, usersReq,
                  selectedUser, interactions, loadingInteractions, epoch, unsubscribe,
                  listeners, lastCall, lastSnapshot, tasks >>

\* ---------------------------------------------------------------- backend
\* parseInt(req.query.limit): NaN for an absent or non-numeric parameter.
NaN == [nan |-> TRUE]
Parsed(n) == [nan |-> FALSE, n |-> n]
LimitParams == { NaN, Parsed(0), Parsed(5), Parsed(30) }

\* parseInt(req.query.limit) || 20
LimitOrDefault(p) == IF p.nan \/ p.n = 0 THEN DefaultLimit ELSE p.n

\* res.status(code).json(body), leaving handler state h.
Reply(h, code, body) == [h EXCEPT !.pc = "done", !.status = code, !.body = body]

\* catch (error): res.status(500).json({message: 'Error fetching interactions'})
BeErrorReply(h) == Reply(h, 500, << >>)

\* No interactions answered as "not found".
MutBeEmptyReply(h) == Reply(h, 404, << >>)

\* No interactions answered as a failure.
MutBeEmptyAsError(h) == Reply(h, 500, << >>)

\* if (interactionsSnapshot.empty) return res.status(200).json([])
BeEmptyReply(h) == Reply(h, 200, << >>)

\* A handler that asks for the first ten ids at every offset.
MutBeBatch(ids, i) == Slice(ids, 0, BatchLimit)

\* The ids of the lookup the handler issues at offset i:
\* videoIds.slice(0, 10) first, then videoIds.slice(i, i + 10) from i = 10.
BeBatch(ids, i) == Slice(ids, i, i + BatchLimit)

\* GET /api/users/:userId/interactions arrives; the handler awaits the
\* interactions query.
BeRequest(raw, p) ==
  /\ ServerRuns
  /\ UNCHANGED dashVars
  /\ be.pc \in { "idle", "done" }
  /\ raw \in stored
  /\ be' = [BeIdle EXCEPT !.pc = "interactions", !.route = "interactions",
                          !.raw = raw, !.limit = LimitOrDefault(p)]
  /\ UNCHANGED << content, stored, appVars >>

\* The interactions query settles.  An empty snapshot is answered at once;
\* otherwise the first lookup is issued and awaited.
BeInteractions(ok) ==
  /\ ServerRuns
  /\ UNCHANGED dashVars
  /\ be.pc = "interactions"
  /\ LET docs == LimitTo(be.raw, be.limit)
         ids  == VideoIdsOf(docs)
         h    == [be EXCEPT !.docs = docs]
     IN be' = IF ~ok THEN BeErrorReply(be)
              ELSE IF IsEmpty(docs) THEN BeEmptyReply(h)
              ELSE IF Len(ids) > 0
                   THEN [h EXCEPT !.pc = "lookup", !.ids = ids, !.i = 0,
                                  !.queries = << BeBatch(ids, 0) >>]
                   ELSE Reply([h EXCEPT !.ids = ids], 200, Decorate(docs, EmptyMap))
  /\ UNCHANGED << content, stored, appVars >>

\* The awaited lookup settles: its documents are put into videosMap, then
\* the next batch is issued and awaited, or the joined list is sent.
BeLookup(ok) ==
  /\ ServerRuns
  /\ UNCHANGED dashVars
  /\ be.pc = "lookup"
  /\ LET map  == MapSetAll(be.videosMap, QueryIn(content, BeBatch(be.ids, be.i)))
         next == be.i + BatchLimit
         h    == [be EXCEPT !.videosMap = map, !.resolved = @ + 1]
     IN be' = IF ~ok THEN BeErrorReply(be)
              ELSE IF next < Len(be.ids)
                   THEN [h EXCEPT !.i = next,
                                  !.queries = Append(@, BeBatch(be.ids, next))]
                   ELSE Reply(h, 200, Decorate(be.docs, map))
  /\ UNCHANGED << content, stored, appVars >>

\* --------------------------------------------------------------- dashboard
\* The Dashboard component is the mounted route.
DashMounted == dashboard # "none" /\ ~mounted

\* The fetches of a component that was unmounted: they still settle, and
\* React drops their state updates.
Dead(fetches) == [j \in DOMAIN fetches |-> [fetches[j] EXCEPT !.live = FALSE]]

\* fetchCategoryData when JSON.parse throws: the catch block and finally
\* run in the same turn and no request is made.  The first variant clears
\* the counts; the expiring one keeps them, the slot not being empty.
FetchCategoryDataThrows(variant, counts, err, fetches) ==
  /\ categoryFetches' = fetches
  /\ categoryCountsFromAPI' = IF variant = "forever" THEN Null ELSE counts
  /\ loadingCategoryCounts' = FALSE
  /\ dashError' = ErrorAdded(err, "category")
  /\ logged' = "Error fetching or caching category counts:"

\* fetchCategoryData(ignoreCache) up to its first await, or to its return
\* on a cache hit, reading storage.
FetchCategoryData(variant, ignoreCache, storage, counts, err, fetches) ==
  LET hit == CacheHit(variant, ignoreCache, storage, now)
  IN IF ParseThrows(variant, ignoreCache, storage)
     THEN FetchCategoryDataThrows(variant, counts, err, fetches)
     ELSE /\ Len(Issued(hit, fetches, ignoreCache)) <= MaxFetches
          /\ categoryFetches' = Issued(hit, fetches, ignoreCache)
          /\ categoryCountsFromAPI' = IF hit THEN JSONParse(storage).data ELSE counts
          /\ loadingCategoryCounts' = ~hit
          /\ dashError' = IF hit /\ variant = "expiring"
                          THEN ErrorCleared(err, "category") ELSE err
          /\ logged' = IF hit THEN "Loading category counts from cache."
                       ELSE "Fetching category counts from API..."

\* The component mounts with its initial state and runs its mount effects:
\* fetchUsers() and fetchCategoryData().
DashboardMounts(variant) ==
  /\ displayedSection' = "none"
  /\ dashUsers' = "pending"
  /\ FetchCategoryData(variant, FALSE, localStorage, Null, {}, categoryFetches)
  /\ dashSelected' = NoUser
  /\ interactionSummary' = Null
  /\ loadingInteractionSummary' = FALSE
  /\ UNCHANGED << now, ticks, localStorage, summaryFetches >>

\* The route changes to /dashboard before the App page has done anything.
\* (The dashboard reads no interactions sub-collection, so it is explored
\* with one choice of them.)
OpenDashboard(variant) ==
  /\ dashboard = "none"
  /\ stored = ChangingStore
  /\ be = BeIdle
  /\ usersReq = "pending"
  /\ mounted
  /\ dashboard' = variant
  /\ mounted' = FALSE
  /\ DashboardMounts(variant)
  /\ UNCHANGED << content, stored, be, users, loadingUsers, usersReq, selectedUser,
                  interactions, loadingInteractions, error, epoch, unsubscribe,
                  listeners, lastCall, lastSnapshot, tasks, recVars >>

\* The route changes away from /dashboard: React discards the component's
\* state; its fetches go on.
LeaveDashboard ==
  /\ DashMounted
  /\ mounted' = TRUE
  /\ displayedSection' = "none"
  /\ dashUsers' = "pending"
  /\ categoryCountsFromAPI' = Null
  /\ loadingCategoryCounts' = FALSE
  /\ dashError' = {}
  /\ categoryFetches' = Dead(categoryFetches)
  /\ dashSelected' = NoUser
  /\ interactionSummary' = Null
  /\ loadingInteractionSummary' = FALSE
  /\ summaryFetches' = Dead(summaryFetches)
  /\ UNCHANGED << content, stored, be, users, loadingUsers, usersReq, selectedUser,
                  interactions, loadingInteractions, error, epoch, unsubscribe,
                  listeners, lastCall, lastSnapshot, tasks, recVars, dashboard, now,
                  ticks, localStorage, logged >>

\* The route changes back to /dashboard.
ReturnToDashboard ==
  /\ dashboard # "none"
  /\ mounted
  /\ mounted' = FALSE
  /\ DashboardMounts(dashboard)
  /\ UNCHANGED << content, stored, be, users, loadingUsers, usersReq, selectedUser,
                  interactions, loadingInteractions, error, epoch, unsubscribe,
                  listeners, lastCall, lastSnapshot, tasks, recVars, dashboard >>

\* Time passes: Date.now() grows by d milliseconds.
Tick(d) ==
  /\ dashboard # "none"
  /\ ticks < MaxTicks
  /\ now' = now + d
  /\ ticks' = ticks + 1
  /\ UNCHANGED << content, stored, be, appVars, summaryVars, dashboard, displayedSection, dashUsers,
                  localStorage, categoryCountsFromAPI, loadingCategoryCounts,
                  dashError, categoryFetches, logged >>

\* The dashboard's fetchUsers settles.  The expiring variant clears error
\* on success.
DashUsersResolve(ok) ==
  /\ DashMounted
  /\ dashUsers = "pending"
  /\ dashUsers' = IF ok THEN "loaded" ELSE "failed"
  /\ dashError' = IF ~ok THEN { "users" }
                  ELSE IF dashboard = "expiring" THEN {} ELSE dashError
  /\ UNCHANGED << content, stored, be, appVars, summaryVars, dashboard, displayedSection, now, ticks,
                  localStorage, categoryCountsFromAPI, loadingCategoryCounts,
                  categoryFetches, logged >>

\* The activities of a user's interactions in the order of the scan; an
\* interaction may have no activity.
ActivitiesOf(u) == IF u = "u1" THEN << "view", "like", "view" >> ELSE << "view", "" >>

\* interactionsSnapshot.forEach(doc => { if (activity) summary[activity] =
\* (summary[activity] || 0) + 1 }) over the first n interactions.
RECURSIVE CountActivities(_, _)
CountActivities(activities, n) ==
  IF n = 0 THEN NoCounts
  ELSE IF activities[n] = "" THEN CountActivities(activities, n - 1)
  ELSE Increment(CountActivities(activities, n - 1), activities[n])

\* What GET /api/users/:userId/interaction-summary answers for user u.
SummaryOf(u) == CountActivities(ActivitiesOf(u), Len(ActivitiesOf(u)))

\* The body of the interaction summary effect, run with selectedUser =
\* user and displayedSection = section on the state the handler before it
\* left.  The first variant looks at the user only, and its else branch
\* only clears the summary.
SummaryEffect(variant, user, section, summary, loading, err, fetches) ==
  IF user # NoUser /\ (variant = "expiring" => section = "userInteraction")
  THEN /\ Len(fetches) < MaxFetches
       /\ summaryFetches' = Append(fetches, [user |-> user, live |-> TRUE])
       /\ loadingInteractionSummary' = TRUE
       /\ interactionSummary' = summary
       /\ dashError' = err
  ELSE /\ summaryFetches' = fetches
       /\ interactionSummary' = Null
       /\ loadingInteractionSummary' = IF variant = "expiring" THEN FALSE ELSE loading
       /\ dashError' = IF variant = "expiring" THEN ErrorCleared(err, "summary") ELSE err

\* handleUserChange of the dashboard, then the summary effect.  The
\* Autocomplete has options once the users are loaded and, in the expiring
\* variant, is shown in the userInteraction section.
DashUserChange(u) ==
  /\ DashMounted
  /\ dashUsers = "loaded"
  /\ u # dashSelected
  /\ dashboard = "expiring" => displayedSection = "userInteraction"
  /\ dashSelected' = u
  /\ IF dashboard = "expiring"
     THEN SummaryEffect(dashboard, u, displayedSection, Null, loadingInteractionSummary,
                        ErrorCleared(dashError, "summary"), summaryFetches)
     ELSE SummaryEffect(dashboard, u, displayedSection, interactionSummary,
                        loadingInteractionSummary, dashError, summaryFetches)
  /\ UNCHANGED << content, stored, be, appVars, dashboard, displayedSection, dashUsers,
                  now, ticks, localStorage, categoryCountsFromAPI,
                  loadingCategoryCounts, categoryFetches, logged >>

\* The fetch i of /interaction-summary settles: the rest of fetchSummary
\* runs, whoever is selected and whatever section is displayed by now.
SummaryResponse(i, ok) ==
  /\ dashboard # "none"
  /\ i \in DOMAIN summaryFetches
  /\ summaryFetches' = RemoveAt(summaryFetches, i)
  /\ IF summaryFetches[i].live
     THEN /\ interactionSummary' = IF ok THEN SummaryOf(summaryFetches[i].user) ELSE Null
          /\ dashError' = IF ~ok THEN ErrorAdded(dashError, "summary")
                          ELSE IF dashboard = "expiring"
                               THEN ErrorCleared(dashError, "summary") ELSE dashError
          /\ loadingInteractionSummary' = FALSE
     ELSE UNCHANGED << interactionSummary, dashError, loadingInteractionSummary >>
  /\ UNCHANGED << content, stored, be, appVars, dashboard, displayedSection, dashUsers,
                  dashSelected, now, ticks, localStorage, categoryCountsFromAPI,
                  loadingCategoryCounts, categoryFetches, logged >>

\* handleSectionChange(section) of the expiring variant, then the summary
\* effect when displayedSection changed.  The button of userInteraction is
\* disabled without users, that of categoryCounts while
\* loadingCategoryCounts.
SectionChange(section) ==
  /\ DashMounted
  /\ dashboard = "expiring"
  /\ section = "userInteraction" => dashUsers = "loaded"
  /\ section = "categoryCounts" => ~loadingCategoryCounts
  /\ displayedSection' = section
  /\ loadingCategoryCounts' =
       IF section = "userInteraction" THEN FALSE ELSE loadingCategoryCounts
  /\ LET loading == IF section = "categoryCounts" THEN FALSE
                    ELSE loadingInteractionSummary
         err     == IF section = "userInteraction"
                    THEN ErrorCleared(dashError, "category")
                    ELSE ErrorCleared(dashError, "summary")
     IN IF section # displayedSection
        THEN SummaryEffect(dashboard, dashSelected, section, interactionSummary,
                           loading, err, summaryFetches)
        ELSE /\ loadingInteractionSummary' = loading
             /\ dashError' = err
             /\ UNCHANGED << interactionSummary, summaryFetches >>
  /\ UNCHANGED << content, stored, be, appVars, dashboard, dashUsers, dashSelected, now,
                  ticks, localStorage, categoryCountsFromAPI, categoryFetches, logged >>

\* handleRefreshCategoryCache: the cache key is removed, then
\* fetchCategoryData(true) (fetchCategoryData() in the first variant) runs
\* to its first await.  The button is disabled while loadingCategoryCounts
\* and, in the expiring variant, shown in the categoryCounts section only.
RefreshCategoryCache ==
  /\ DashMounted
  /\ ~loadingCategoryCounts
  /\ dashboard = "expiring" => displayedSection = "categoryCounts"
  /\ localStorage' = RemoveItem(localStorage)
  /\ FetchCategoryData(dashboard, TRUE, RemoveItem(localStorage),
                       categoryCountsFromAPI, dashError, categoryFetches)
  /\ UNCHANGED << content, stored, be, appVars, summaryVars, dashboard, displayedSection, dashUsers,
                  now, ticks >>

\* The fetch i of /video-categories settles, with summary data when it
\* succeeds: the rest of fetchCategoryData runs.
CategoryResponse(i, ok, data) ==
  /\ dashboard # "none"
  /\ i \in DOMAIN categoryFetches
  /\ categoryFetches' = RemoveAt(categoryFetches, i)
  /\ localStorage' = StorageAfterResponse(ok, localStorage, data, now)
  /\ logged' = IF ok THEN "Category counts fetched and cached."
               ELSE "Error fetching or caching category counts:"
  /\ IF categoryFetches[i].live
     THEN /\ loadingCategoryCounts' = FALSE
          /\ IF ok
             THEN /\ categoryCountsFromAPI' = data
                  /\ dashError' = IF dashboard = "expiring"
                                  THEN ErrorCleared(dashError, "category")
                                  ELSE dashError
             ELSE /\ dashError' = ErrorAdded(dashError, "category")
                  /\ categoryCountsFromAPI' =
                       IF dashboard = "forever" \/ localStorage = Null
                       THEN Null ELSE categoryCountsFromAPI
     ELSE UNCHANGED << categoryCountsFromAPI, loadingCategoryCounts, dashError >>
  /\ UNCHANGED << content, stored, be, appVars, summaryVars, dashboard, displayedSection, dashUsers,
                  now, ticks >>

\* GET /api/video-categories arrives; the handler awaits the scan of the
\* collection.  (The handler keeps nothing between two requests, so a run
\* follows one scan; and the scan reads no interactions sub-collection, so
\* it is explored with one choice of them.)
BeCategoriesRequest(snapshot) ==
  /\ ServerRuns
  /\ stored = ChangingStore
  /\ be.pc = "idle"
  /\ be' = [BeIdle EXCEPT !.pc = "categories", !.route = "categories",
                          !.snapshot = snapshot]
  /\ UNCHANGED << content, stored, appVars, dashVars >>

\* The scan settles: an empty collection is answered with {}, any other
\* with the counts of its categories.
BeCategories(ok) ==
  /\ ServerRuns
  /\ be.pc = "categories"
  /\ be' = IF ~ok THEN BeErrorReply(be)
           ELSE IF IsEmpty(be.snapshot) THEN Reply(be, 200, << >>)
           ELSE Reply([be EXCEPT !.categories =
                         CountCategories(be.snapshot, Len(be.snapshot))],
                      200, << >>)
  /\ UNCHANGED << content, stored, appVars, dashVars >>

\* ------------------------------------------------------------------- next
\* The steps of the App page and of the interactions endpoint.
NextPage ==
  \/ \E ok \in BOOLEAN : UsersResolve(ok)
  \/ \E u \in Users, throws \in BOOLEAN : SelectUser(u, throws)
  \/ Deselect
  \/ Unmount
  \/ \E l \in listeners, raw \in stored : Notify(l, raw)
  \/ \E i \in 1..MaxTasks, b \in 1..MaxBatches, ok \in BOOLEAN :
       BatchSettles(i, b, ok)
  \/ \E l \in listeners : ListenerError(l)
  \/ \E raw \in stored, p \in LimitParams : BeRequest(raw, p)
  \/ \E ok \in BOOLEAN : BeInteractions(ok)
  \/ \E ok \in BOOLEAN : BeLookup(ok)

\* The steps of the Dashboard page and of the categories endpoint.
NextDashboard ==
  \/ \E snapshot \in Collections : BeCategoriesRequest(snapshot)
  \/ \E ok \in BOOLEAN : BeCategories(ok)
  \/ \E variant \in Variants : OpenDashboard(variant)
  \/ LeaveDashboard
  \/ ReturnToDashboard
  \/ \E d \in Steps : Tick(d)
  \/ \E ok \in BOOLEAN : DashUsersResolve(ok)
  \/ \E section \in { "userInteraction", "categoryCounts" } : SectionChange(section)
  \/ RefreshCategoryCache
  \/ \E i \in 1..MaxFetches, ok \in BOOLEAN, data \in Summaries :
       CategoryResponse(i, ok, data)

Next == NextPage \/ NextDashboard

\* Something other than this Dashboard (an earlier release of the page,
\* another script of the origin, the user in the developer tools) stores a
\* string under CATEGORY_CACHE_KEY before the dashboard is opened.
ForeignWrite ==
  /\ dashboard = "none"
  /\ localStorage = Null
  /\ localStorage' = Undecodable
  /\ UNCHANGED << content, stored, be, appVars, summaryVars, dashboard, displayedSection, dashUsers,
                  now, ticks, categoryCountsFromAPI, loadingCategoryCounts,
                  dashError, categoryFetches, logged >>

NextForeign == ForeignWrite \/ NextDashboard

Spec == Init /\ [][Next]_vars

\* Every lookup of a suspended join is answered or fails in the end.
LookupsTerminate ==
  \A i \in 1..MaxTasks :
    WF_vars(\E b \in 1..MaxBatches, ok \in BOOLEAN : BatchSettles(i, b, ok))

\* The runs on a sub-collection that changes, with terminating lookups.
InitLive == Init /\ stored = ChangingStore

SpecLive == InitLive /\ [][NextPage]_vars /\ LookupsTerminate

\* The page of a user with two interactions on one video, with the
\* answers to its requests for recommendations.
StoreOfOne == { RawDocs(1, 1) }

InitRecommend == Init /\ stored = StoreOfOne

NextRecommend ==
  \/ \E ok \in BOOLEAN : UsersResolve(ok)
  \/ \E u \in Users, throws \in BOOLEAN : SelectUser(u, throws)
  \/ Deselect
  \/ Unmount
  \/ \E l \in listeners, raw \in stored : Notify(l, raw)
  \/ \E i \in 1..MaxTasks, b \in 1..MaxBatches, ok \in BOOLEAN :
       BatchSettles(i, b, ok)
  \/ \E l \in listeners : ListenerError(l)
  \/ \E i \in 1..MaxEpoch, ok \in BOOLEAN : RecommendationsSettle(i, ok)

SpecRecommend == InitRecommend /\ [][NextRecommend]_vars

\* The dashboard with its user selection, opened once and at one time.
NextSummary ==
  \/ \E variant \in Variants : OpenDashboard(variant)
  \/ \E ok \in BOOLEAN : DashUsersResolve(ok)
  \/ \E section \in { "userInteraction", "categoryCounts" } : SectionChange(section)
  \/ \E i \in 1..MaxFetches, ok \in BOOLEAN, data \in Summaries :
       CategoryResponse(i, ok, data)
  \/ RefreshCategoryCache
  \/ \E u \in Users \cup { NoUser } : DashUserChange(u)
  \/ \E i \in 1..MaxFetches, ok \in BOOLEAN : SummaryResponse(i, ok)

SpecSummary == InitLive /\ [][NextSummary]_vars

\* The runs of the dashboard on a slot that may hold a foreign string.
SpecForeign == InitLive /\ [][NextForeign]_vars

\* ================================================================ claims
\* The subscription of the effect that is current; every other one up to
\* epoch has had its cleanup run.
Cancelled(e) == e # unsubscribe

\* Some suspended callback of subscription set S resumes in this step.
ResumesOf(i) == i \in DOMAIN tasks /\ tasks' = RemoveAt(tasks, i)

\* C1: once the cleanup of a subscription has run, no later step sets
\* interactions or loadingInteractions from a snapshot delivered to it, a
\* join in flight at the cleanup included.
C1_NoUpdateAfterCleanup ==
  [][\A i \in DOMAIN tasks :
       (ResumesOf(i) /\ Cancelled(tasks[i].epoch))
         => UNCHANGED << interactions, loadingInteractions >>]_vars

\* Every registered listener belongs to the effect that is current.
Released ==
  \A l \in listeners :
    mounted /\ selectedUser # NoUser /\ l = Listener(unsubscribe, selectedUser)

\* C2: after unsubscribe has been called no callback of that subscription
\* is invoked, and every way out of the effect (another user, no user,
\* unmount) leaves no listener of the effect registered.
C2_CancelStopsCallbacks ==
  [][/\ Released'
     /\ lastCall' # lastCall => (lastCall' = unsubscribe /\ unsubscribe # 0)
     /\ Len(tasks') > Len(tasks)
          => (tasks'[Len(tasks')].epoch = unsubscribe /\ unsubscribe # 0)]_vars

\* A subscription got a snapshot and was cancelled afterwards while its
\* sub-collection can still change.
C2_Witness ==
  /\ lastCall # 0
  /\ Cancelled(lastCall)
  /\ listeners = {}
  /\ stored = ChangingStore

\* A joined list marks a video as missing only when the content collection
\* has no record of it.
NullOnlyWhenAbsent(joined) ==
  \A j \in DOMAIN joined :
    joined[j].video = Null => joined[j].videoId \notin content

\* C3: a failed batch lookup fails the whole join; no joined result carries
\* video: null for an id whose lookup failed.
C3_FailedLookupFailsJoin ==
  /\ NullOnlyWhenAbsent(interactions)
  /\ (be.pc = "done" /\ be.status = 200) => NullOnlyWhenAbsent(be.body)

\* C4: in every join all batch lookups are started before the result of any
\* of them is received.
C4_FanOutBeforeAwait ==
  [][/\ \A i \in DOMAIN tasks' :
          (\E b \in DOMAIN tasks'[i].status : tasks'[i].status[b] = "ok")
            => tasks'[i].issued = Len(tasks'[i].batches)
     /\ (be.pc = "lookup" /\ be'.pc = "lookup"
           /\ Len(be'.queries) > Len(be.queries))
          => be'.resolved = 0]_vars

CeilDiv(k, n) == (k + n - 1) \div n

DistinctIds(docs) == { docs[j].videoId : j \in DOMAIN docs }

BatchSizesOk(queries) ==
  \A q \in DOMAIN queries : Len(queries[q]) >= 1 /\ Len(queries[q]) <= BatchLimit

\* C5: a join over k distinct video ids issues exactly ceil(k/10) lookups,
\* each carrying 1 to 10 ids.  (The backend issues them one after the
\* other, so its count is that of a handler that sent its joined reply.)
C5_BatchCount ==
  /\ \A i \in DOMAIN tasks :
       /\ tasks[i].issued = CeilDiv(Cardinality(DistinctIds(tasks[i].docs)), BatchLimit)
       /\ BatchSizesOk(SubSeq(tasks[i].batches, 1, tasks[i].issued))
  /\ BatchSizesOk(be.queries)
  /\ Len(be.queries) <= CeilDiv(Cardinality(DistinctIds(be.docs)), BatchLimit)
  /\ (be.pc = "done" /\ be.status = 200)
       => Len(be.queries) = CeilDiv(Cardinality(DistinctIds(be.docs)), BatchLimit)

\* A join of the page over 15 distinct ids: two lookups, of 10 and of 5.
C5_Witness ==
  \E i \in DOMAIN tasks :
    /\ Cardinality(DistinctIds(tasks[i].docs)) = 15
    /\ tasks[i].issued = 2
    /\ Len(tasks[i].batches[1]) = 10
    /\ Len(tasks[i].batches[2]) = 5

\* out is docs in the same order, each with the record of its video when
\* keys holds the video's id and with null otherwise.
IsJoinOf(out, docs, keys) ==
  /\ Len(out) = Len(docs)
  /\ \A j \in DOMAIN docs :
       /\ out[j].interactionId = docs[j].interactionId
       /\ out[j].time = docs[j].time
       /\ out[j].videoId = docs[j].videoId
       /\ out[j].video # Undefined
       /\ out[j].video = IF docs[j].videoId \in keys
                         THEN VideoDoc(docs[j].videoId) ELSE Null

\* C6: the join output has the length and the order of its input; each
\* element is its interaction plus video, the mapped record of its videoId
\* or exactly null, never undefined, and none is dropped.
C6_JoinKeepsEveryInteraction ==
  [][/\ (Len(tasks') < Len(tasks) /\ mounted)
          => \E i \in DOMAIN tasks :
               /\ ResumesOf(i)
               /\ \E keys \in { content, {} } :
                    IsJoinOf(interactions', tasks[i].docs, keys)
     /\ (be'.pc = "done" /\ be'.status = 200)
          => IsJoinOf(be'.body, be'.docs, DOMAIN be'.videosMap)]_vars

\* A joined list on the page with a found video and a broken reference.
C6_Witness ==
  /\ \E j \in DOMAIN interactions : interactions[j].video = Null
  /\ \E j \in DOMAIN interactions : interactions[j].video = VideoDoc(interactions[j].videoId)

\* C7: the keys of the mapping a join builds are among the distinct video
\* ids the join requested.
C7_KeysAreRequested ==
  /\ \A i \in DOMAIN tasks :
       DOMAIN MergeResults(content, tasks[i].batches, Len(tasks[i].batches))
         \subseteq DistinctIds(tasks[i].docs)
  /\ DOMAIN be.videosMap \subseteq DistinctIds(be.docs)
  /\ \A j \in DOMAIN interactions :
       interactions[j].video # Null => interactions[j].video.id = interactions[j].videoId

\* The handler built a mapping while the collection holds videos that no
\* interaction refers to.
C7_Witness ==
  /\ be.pc = "done"
  /\ DOMAIN be.videosMap # {}
  /\ content \ DistinctIds(be.docs) # {}

\* C8: with no distinct video id (an empty snapshot or query result) no
\* lookup is issued and the mapping and the interaction list are empty.
C8_NothingToJoin ==
  /\ \A i \in DOMAIN tasks : tasks[i].issued > 0 => DistinctIds(tasks[i].docs) # {}
  /\ be.queries # << >> => DistinctIds(be.docs) # {}
  /\ stored = { << >> }
       => /\ tasks = << >>
          /\ interactions = << >>
          /\ be.pc # "lookup"
          /\ be.pc = "done"
               => /\ be.queries = << >>
                  /\ be.videosMap = EmptyMap
                  /\ be.body = << >>
                  /\ be.status \in { 200, 500 }

\* The handler answered a user without interactions.
C8_Witness ==
  /\ stored = { << >> }
  /\ be.pc = "done"
  /\ be.status = 200

\* The non-empty snapshots a listener is given in this run (the content of
\* stored never changes), and the shortest and the longest of them.
Snapshots == { LimitTo(raw, QueryLimit) : raw \in stored } \ { << >> }

Shortest ==
  LET S == Snapshots
  IN IF S = {} THEN << >> ELSE CHOOSE d \in S : \A x \in S : Len(d) <= Len(x)
Longest ==
  LET S == Snapshots
  IN IF S = {} THEN << >> ELSE CHOOSE d \in S : \A x \in S : Len(d) >= Len(x)

\* A run has at most these two.
SnapshotNo(n) == IF n = 1 THEN Shortest ELSE Longest

\* docs joined with the records of the videos in keys.
JoinWith(docs, keys) ==
  [j \in DOMAIN docs |->
     [interactionId |-> docs[j].interactionId,
      time          |-> docs[j].time,
      videoId       |-> docs[j].videoId,
      video         |-> IF docs[j].videoId \in keys
                        THEN VideoDoc(docs[j].videoId) ELSE Null]]

\* A callback of the current subscription is suspended in the join of docs.
Joining(docs) ==
  \E i \in DOMAIN tasks : tasks[i].epoch = unsubscribe /\ tasks[i].docs = docs

\* The page shows the join of docs (with no video at all when a lookup
\* was rejected) and is not loading.
Shown(docs) ==
  /\ interactions \in { JoinWith(docs, content), JoinWith(docs, {}) }
  /\ ~loadingInteractions

\* The join of snapshot n is shown, or no callback of the current
\* subscription is suspended in it.
SettledNo(n) == LET docs == SnapshotNo(n) IN Shown(docs) \/ ~Joining(docs)

\* C9: while a subscription is not cancelled, a snapshot notification is
\* eventually followed by interactions holding the join of that snapshot
\* (with no video at all when a lookup was rejected) and by
\* loadingInteractions being false, provided the lookups terminate.
\* (A callback of the current subscription that resumes shows its join; and
\* a suspended one does not stay suspended: it leaves by resuming or by
\* its subscription being cancelled.)
C9_SnapshotIsEventuallyShown ==
  /\ [][\A i \in DOMAIN tasks :
         (ResumesOf(i) /\ ~Cancelled(tasks[i].epoch))
           => /\ interactions' \in { JoinWith(tasks[i].docs, content),
                                     JoinWith(tasks[i].docs, {}) }
              /\ ~loadingInteractions']_vars
  /\ \A n \in 1..2 : Joining(SnapshotNo(n)) ~> SettledNo(n)

\* The page shows the join of a two-batch snapshot of the subscription
\* that is still the current one.
C9_Witness ==
  /\ unsubscribe # 0
  /\ lastCall = unsubscribe
  /\ Len(interactions) > BatchLimit
  /\ interactions = JoinWith(LimitTo(CHOOSE raw \in stored : Len(raw) > BatchLimit,
                                     QueryLimit), content)
  /\ ~loadingInteractions

\* The listener of the current effect has ended with an error.
Errored ==
  /\ unsubscribe # 0
  /\ Listener(unsubscribe, selectedUser) \notin listeners

\* C10: once the error callback has fired, the error is recorded and the
\* subscription puts no further joined snapshot into interactions until
\* the selected user changes.
C10_ErrorIsTerminal ==
  Errored => /\ "realtime" \in Range(error)
             /\ interactions = << >>
             /\ ~loadingInteractions

\* ------------------------------------------------------- the category cache
\* The Dashboard component mounts in this step: its mount effect calls
\* fetchCategoryData(), the one call that reads the cache for its data.
Mounting == (\E variant \in Variants : OpenDashboard(variant)) \/ ReturnToDashboard

\* An entry is stored and it is younger than the TTL.
Fresh ==
  /\ localStorage # Null
  /\ now - localStorage.json[2] < CATEGORY_CACHE_EXPIRY

\* The step shows the stored entry's data and issues no request.
ServedFromCache ==
  /\ categoryCountsFromAPI' = JSONParse(localStorage).data
  /\ ~loadingCategoryCounts'
  /\ categoryFetches' = categoryFetches
  /\ logged' = "Loading category counts from cache."

\* The step issues one request to /video-categories and shows nothing new.
Refetched ==
  /\ Len(categoryFetches') = Len(categoryFetches) + 1
  /\ loadingCategoryCounts'
  /\ logged' = "Fetching category counts from API..."

\* C11: a cache read is a hit exactly when an entry is stored and
\* now - entry.timestamp < TTL; otherwise the aggregation is fetched again.
C11_HitIffFresh ==
  [][Mounting => IF Fresh THEN ServedFromCache ELSE Refetched]_vars

\* C12: on a cache hit fetchCategoryData shows the cached data and issues
\* no request to /video-categories.
C12_HitContactsNoEndpoint ==
  [][(Mounting /\ CacheHit(dashboard', FALSE, localStorage, now))
       => ServedFromCache]_vars

\* The dashboard was mounted on a stored entry and shows it, no fetch
\* being in flight.
C12_Witness ==
  /\ DashMounted
  /\ logged = "Loading category counts from cache."
  /\ categoryFetches = << >>
  /\ localStorage # Null
  /\ categoryCountsFromAPI = JSONParse(localStorage).data
  /\ ~loadingCategoryCounts

\* C13: a cache miss and every manual refresh contact the endpoint exactly
\* once; when the fetch succeeds the slot becomes {data: result,
\* timestamp: now} and the component that issued it shows the result; a
\* manual refresh serves nothing from the cache: it clears the slot and
\* goes to the endpoint.
C13_MissAndRefreshFetchOnce ==
  [][/\ (Mounting /\ ~CacheHit(dashboard', FALSE, localStorage, now)) => Refetched
     /\ RefreshCategoryCache
          => /\ Refetched
             /\ localStorage' = Null
             /\ categoryCountsFromAPI' = categoryCountsFromAPI
     /\ \A i \in DOMAIN categoryFetches, data \in Summaries :
          CategoryResponse(i, TRUE, data)
            => /\ localStorage' = JSONStringify([data |-> data, timestamp |-> now])
               /\ Len(categoryFetches') = Len(categoryFetches) - 1
               /\ categoryFetches[i].live
                    => /\ categoryCountsFromAPI' = data
                       /\ ~loadingCategoryCounts']_vars

\* A refresh made after the first second has been answered: the slot holds
\* the answer stamped with the present time.
C13_Witness ==
  /\ DashMounted
  /\ logged = "Category counts fetched and cached."
  /\ now > 0
  /\ localStorage # Null
  /\ JSONParse(localStorage).timestamp = now
  /\ categoryCountsFromAPI = JSONParse(localStorage).data
  /\ categoryCountsFromAPI # NoCounts
  /\ displayedSection = "categoryCounts"

\* C14: a summary x written to the cache and read within the TTL, with no
\* write or invalidate in between, is returned as x: the stored text is
\* what a write of some summary x produced, and the read shows that x.
C14_RoundTrip ==
  [][(Mounting /\ Fresh)
       => \E x \in Summaries :
            /\ localStorage = JSONStringify([data |-> x, timestamp |-> localStorage.json[2]])
            /\ categoryCountsFromAPI' = x]_vars

\* A summary with counts, written earlier, is shown from the cache.
C14_Witness ==
  /\ DashMounted
  /\ dashboard = "expiring"
  /\ logged = "Loading category counts from cache."
  /\ localStorage # Null
  /\ now > localStorage.json[2]
  /\ categoryCountsFromAPI # Null
  /\ categoryCountsFromAPI # NoCounts
  /\ categoryCountsFromAPI = JSONParse(localStorage).data

\* C15: the invalidate of a refresh clears the slot whatever it held, and a
\* read of the cleared slot is a miss: the read of the refresh itself (first
\* variant) and the read of the next mount both go to the endpoint.
C15_InvalidateThenMiss ==
  [][/\ RefreshCategoryCache => (localStorage' = Null /\ Refetched)
     /\ (Mounting /\ localStorage = Null)
          => (Refetched /\ categoryCountsFromAPI' = Null)]_vars

\* A refresh cleared the slot while the dashboard showed a summary.
C15_Witness ==
  /\ DashMounted
  /\ localStorage = Null
  /\ categoryCountsFromAPI # Null
  /\ loadingCategoryCounts
  /\ logged = "Fetching category counts from API..."

\* C16: a cache read never modifies the slot, a stale entry included; the
\* slot changes only by the write of a successful fetch or by the
\* invalidate of a refresh.
C16_ReadLeavesSlot ==
  [][/\ Mounting => localStorage' = localStorage
     /\ localStorage' # localStorage
          => \/ RefreshCategoryCache /\ localStorage' = Null
             \/ \E i \in DOMAIN categoryFetches, data \in Summaries :
                  CategoryResponse(i, TRUE, data)]_vars

\* A mount read a stale entry, which is still stored.
C16_Witness ==
  /\ DashMounted
  /\ dashboard = "expiring"
  /\ localStorage # Null
  /\ now - localStorage.json[2] >= CATEGORY_CACHE_EXPIRY
  /\ logged = "Fetching category counts from API..."
  /\ displayedSection = "none"
  /\ \E i \in DOMAIN categoryFetches : categoryFetches[i].live

\* --------------------------------------------------- category aggregation
\* The handler of /api/video-categories has answered with a summary.
Summarised == be.route = "categories" /\ be.pc = "done" /\ be.status = 200

RECURSIVE SumOver(_, _)
SumOver(categories, keys) ==
  IF keys = {} THEN 0
  ELSE LET k == CHOOSE x \in keys : TRUE
       IN categories[k] + SumOver(categories, keys \ { k })

BucketOf(video) ==
  IF "category" \in DOMAIN video
  THEN (IF video.category = "" THEN "Unknown" ELSE video.category)
  ELSE "Unknown"

IsNewest(out, raw, n) ==
  LET got == { out[j].interactionId : j \in DOMAIN out }
  IN /\ Len(out) <= n
     /\ Len(out) = Min(n, Len(raw))
     /\ Cardinality(got) = Len(out)
     /\ \A j \in DOMAIN out :
          \E d \in DOMAIN raw :
            raw[d].interactionId = out[j].interactionId /\ raw[d].time = out[j].time
     /\ \A j \in 1..(Len(out) - 1) : out[j].time >= out[j + 1].time
     /\ \A d \in DOMAIN raw :
          raw[d].interactionId \notin got
            => \A j \in DOMAIN out : out[j].time >= raw[d].time

\* C19: for a positive integer limit (20 when the limit is absent) the
\* interactions endpoint returns at most limit interactions, those of the
\* user with the greatest time, ordered by time descending; the page's
\* query does the same with its limit of 20.
C19_NewestUpToLimit ==
  [][/\ \A raw \in stored, p \in LimitParams :
          BeRequest(raw, p)
            => /\ p.nan => be'.limit = DefaultLimit
               /\ (~p.nan /\ p.n > 0) => be'.limit = p.n
     /\ (be'.route = "interactions" /\ be'.pc = "done" /\ be'.status = 200)
          => IsNewest(be'.body, be'.raw, be'.limit)
     /\ \A i \in DOMAIN tasks' :
          \E raw \in stored : IsNewest(tasks'[i].docs, raw, QueryLimit)]_vars

\* The handler answered a request for 5 interactions of a user who has
\* more.
C19_Witness ==
  /\ be.route = "interactions"
  /\ be.pc = "done"
  /\ be.status = 200
  /\ be.limit = 5
  /\ Len(be.raw) > 5
  /\ Len(be.body) = 5
  /\ be.body[1].time = Len(be.raw)

\* C20: a user without interactions gets a successful empty result: the
\* backend answers 200 with an empty list, the page sets interactions to []
\* with loading false and records no error.
C20_EmptyIsNotAnError ==
  [][/\ (BeInteractions(TRUE) /\ be.raw = << >>)
          => (be'.pc = "done" /\ be'.status = 200 /\ be'.body = << >>)
     /\ \A l \in listeners :
          (Notify(l, << >>) /\ mounted)
            => /\ interactions' = << >>
               /\ ~loadingInteractions'
               /\ error' = error
               /\ tasks' = tasks]_vars

\* The page was told that the selected user has no interactions.
C20_Witness ==
  /\ stored = { << >> }
  /\ mounted
  /\ selectedUser # NoUser
  /\ lastCall = unsubscribe
  /\ unsubscribe # 0
  /\ interactions = << >>
  /\ ~loadingInteractions
  /\ error = << >>

\* --------------------------------------------------- a failed category fetch
\* The fetch i of /video-categories, issued by the component that is still
\* mounted, fails in this step.
CategoryFetchFails(i) ==
  /\ i \in DOMAIN categoryFetches
  /\ categoryFetches[i].live
  /\ \E data \in Summaries : CategoryResponse(i, FALSE, data)

\* C22: in the Dashboard that lets its cache expire, when the fetch of the
\* category counts fails while an entry is stored, the counts displayed
\* after the failure are that entry's data and the error is shown; the
\* display becomes empty only when no entry is stored.
C22_StaleCacheStaysVisible ==
  [][\A i \in 1..MaxFetches :
       (dashboard = "expiring" /\ CategoryFetchFails(i))
         => /\ "category" \in dashError'
            /\ localStorage # Null
                 => categoryCountsFromAPI' = JSONParse(localStorage).data
            /\ categoryCountsFromAPI' = Null => localStorage = Null]_vars

\* ------------------------------------------------ the order of the snapshots
\* No callback of the current subscription is suspended in its join.
NoJoinInFlight == \A i \in DOMAIN tasks : tasks[i].epoch # unsubscribe

\* The current subscription is registered and its callback ran last.
Listening ==
  /\ mounted
  /\ unsubscribe # 0
  /\ lastCall = unsubscribe
  /\ Listener(unsubscribe, selectedUser) \in listeners

\* C23: within one active subscription a join result is never applied
\* after that of a snapshot delivered later: the callback that applies its
\* result was given the latest snapshot unless a callback invoked after it
\* is still suspended; and once no join is in flight, interactions is the
\* join of the most recent snapshot.
C23_SnapshotsApplyInOrder ==
  [][/\ \A i \in DOMAIN tasks :
          (/\ ResumesOf(i)
           /\ Listening
           /\ tasks[i].epoch = unsubscribe
           /\ \A k \in DOMAIN tasks : (k > i => tasks[k].epoch # unsubscribe))
            => tasks[i].docs = lastSnapshot
     /\ (Listening' /\ NoJoinInFlight')
          => interactions' \in { JoinWith(lastSnapshot', content),
                                 JoinWith(lastSnapshot', {}) }]_vars

\* ------------------------------------------------------ the batches of a join
\* The places of the lookups queries that ask for video v.
PlacesOf(queries, v) ==
  UNION { { << q, j >> : j \in { x \in DOMAIN queries[q] : queries[q][x] = v } } :
            q \in DOMAIN queries }

\* Every id of ids is asked for at exactly one place of queries, and
\* nothing else is asked for.
Partitions(queries, ids) ==
  /\ \A v \in ids : Cardinality(PlacesOf(queries, v)) = 1
  /\ \A q \in DOMAIN queries : Range(queries[q]) \subseteq ids

\* C24: the batch queries of one join partition the distinct id set: every
\* distinct videoId of the interaction set is in exactly one issued batch
\* query and no id is in two.  (The backend issues its queries one after
\* the other: no id is ever in two of them, and they cover the ids when it
\* sends its joined reply.)
C24_BatchesPartitionIds ==
  /\ \A i \in DOMAIN tasks :
       Partitions(SubSeq(tasks[i].batches, 1, tasks[i].issued),
                  DistinctIds(tasks[i].docs))
  /\ \A v \in DistinctIds(be.docs) : Cardinality(PlacesOf(be.queries, v)) <= 1
  /\ (be.route = "interactions" /\ be.pc = "done" /\ be.status = 200)
       => Partitions(be.queries, DistinctIds(be.docs))

\* The page and the backend each cut a set of more than ten ids: the
\* handler sent a reply joined by three lookups.
C24_Witness ==
  /\ be.route = "interactions"
  /\ be.pc = "done"
  /\ be.status = 200
  /\ Len(be.queries) = 3
  /\ Cardinality(DistinctIds(be.docs)) > 2 * BatchLimit

\* ------------------------------------------------- the two joins compared
\* The mapping and the joined list the page's join gives for docs when
\* every lookup is answered: Promise.all hands the answers over in the
\* order of the batches, whatever order they arrived in.
PageMap(docs) ==
  LET batches == Batches(VideoIdsOf(docs))
  IN MergeResults(content, batches, Len(batches))

PageJoin(docs) == Decorate(docs, PageMap(docs))

\* C25: for the same interaction list and the same content collection,
\* when no lookup fails, the backend's sequential join and the page's
\* concurrent join give the same id-to-record mapping and the same joined
\* list, whatever order the concurrent lookups are answered in: the
\* handler's reply is what the page's join gives for the handler's
\* interactions, and a callback resuming after its last answer shows it.
C25_SequentialEqualsConcurrent ==
  [][/\ (be'.route = "interactions" /\ be'.pc = "done" /\ be'.status = 200)
          => /\ be'.videosMap = PageMap(be'.docs)
             /\ be'.body = PageJoin(be'.docs)
     /\ \A i \in DOMAIN tasks, b \in 1..MaxBatches :
          (BatchSettles(i, b, TRUE) /\ ResumesOf(i) /\ mounted)
            => interactions' = PageJoin(tasks[i].docs)]_vars

\* The handler joined two batches of ids, some of them broken references.
C25_Witness ==
  /\ be.route = "interactions"
  /\ be.pc = "done"
  /\ be.status = 200
  /\ Len(be.queries) = 2
  /\ be.resolved = 2
  /\ \E j \in DOMAIN be.body : be.body[j].video = Null
  /\ \E j \in DOMAIN be.body : be.body[j].video # Null /\ be.body[j].videoId > BatchLimit

\* ------------------------------------------------- the page's loading flag
\* C28: loadingInteractions is true only while the subscription of the
\* selected user can still clear it: with no user selected it is false,
\* and when it is true the listener of the current effect is registered.
C28_LoadingHasASubscription ==
  (mounted /\ loadingInteractions)
    => /\ selectedUser # NoUser
       /\ unsubscribe # 0
       /\ Listener(unsubscribe, selectedUser) \in listeners

\* ------------------------------------------------ one category fetch at once
\* The fetches in flight that the mounted component issued.
LiveFetches(fetches) == { i \in DOMAIN fetches : fetches[i].live }

\* C29: in the Dashboard that lets its cache expire at most one fetch of
\* the category counts is in flight at any time (the refresh button is
\* enabled only when none is), and a fetch that settles is the one started
\* first of those in flight, so that the slot and the displayed counts
\* are written in the order the fetches were started.
C29_OneCategoryFetchInFlight ==
  [][dashboard' = "expiring"
       => /\ Cardinality(LiveFetches(categoryFetches')) <= 1
          /\ \A i \in LiveFetches(categoryFetches) :
               (\E ok \in BOOLEAN, data \in Summaries : CategoryResponse(i, ok, data))
                 => \A k \in LiveFetches(categoryFetches) : i <= k]_vars

\* ------------------------------------------------------ a foreign cache value
\* C30: a stored value that cannot be decoded as a cache entry is treated
\* as a cache miss: the mount's fetchCategoryData contacts the aggregation
\* endpoint, and the successful answer overwrites the slot with an entry.
C30_UndecodableIsAMiss ==
  [][/\ (Mounting /\ localStorage # Null /\ ~Decodable(localStorage)) => Refetched
     /\ \A i \in DOMAIN categoryFetches, data \in Summaries :
          CategoryResponse(i, TRUE, data)
            => localStorage' = JSONStringify(NewCache(data, now))]_vars

\* ------------------------------------------------------- the recommendations
\* What the page may show once the requests for recommendations have
\* settled: the selected user's recommendations, or none (no user, or a
\* failed request).
SettledRecommendations ==
  { << >> } \cup { RecommendationsOf(u) : u \in { selectedUser } \ { NoUser } }

\* C26: a response to a request made for a user who is no longer the
\* selected one never overwrites recommendedVideos, and once every request
\* has settled recommendedVideos holds the selected user's result, or is
\* empty when no user is selected.
C26_RecommendationsOfSelectedUser ==
  [][/\ \A i \in DOMAIN recommendations, ok \in BOOLEAN :
          (RecommendationsSettle(i, ok) /\ mounted
             /\ recommendations[i] # selectedUser)
            => recommendedVideos' = recommendedVideos
     /\ (mounted' /\ recommendations' = << >>)
          => recommendedVideos' \in SettledRecommendations']_vars

\* -------------------------------------------------- the interaction summary
\* The dashboard shows the summary of a user: one is selected and, in the
\* variant with sections, the user-interaction section is displayed.
SummaryWanted ==
  /\ dashSelected # NoUser
  /\ dashboard = "expiring" => displayedSection = "userInteraction"

\* What interactionSummary may be once the requests have settled: null,
\* or the selected user's summary when one is wanted.
SettledSummaries ==
  { Null } \cup (IF SummaryWanted THEN { SummaryOf(dashSelected) } ELSE {})

\* C27: a late response for a user who is no longer selected, or for a
\* section that was left, never sets interactionSummary, and once every
\* request of the mounted dashboard has settled interactionSummary is the
\* selected user's summary, or null when none is wanted.
C27_SummaryOfSelectedUser ==
  [][/\ \A i \in LiveFetches(summaryFetches), ok \in BOOLEAN :
          (SummaryResponse(i, ok)
             /\ ~(SummaryWanted /\ summaryFetches[i].user = dashSelected))
            => interactionSummary' = interactionSummary
     /\ (DashMounted' /\ LiveFetches(summaryFetches') = {})
          => interactionSummary' \in SettledSummaries']_vars

\* ------------------------------------------------ one state per fetch path
\* The loading flag, the data and the recorded error message of a fetch
\* path of the dashboard are the same after the step as before it.
DashUsersSame ==
  /\ dashUsers' = dashUsers
  /\ ("users" \in dashError') = ("users" \in dashError)

CategorySame ==
  /\ loadingCategoryCounts' = loadingCategoryCounts
  /\ categoryCountsFromAPI' = categoryCountsFromAPI
  /\ ("category" \in dashError') = ("category" \in dashError)

SummarySame ==
  /\ loadingInteractionSummary' = loadingInteractionSummary
  /\ interactionSummary' = interactionSummary
  /\ ("summary" \in dashError') = ("summary" \in dashError)

\* The same for the fetch paths of the page.
Recorded(kinds) == { j \in DOMAIN error : error[j] \in kinds }

PageUsersSame ==
  /\ users' = users
  /\ loadingUsers' = loadingUsers
  /\ Recorded({ "users" })' = Recorded({ "users" })

InteractionsSame ==
  /\ interactions' = interactions
  /\ loadingInteractions' = loadingInteractions
  /\ Recorded({ "realtime", "setup" })' = Recorded({ "realtime", "setup" })

RecommendationsSame ==
  /\ recommendedVideos' = recommendedVideos
  /\ loadingRecommendations' = loadingRecommendations
  /\ Recorded({ "recommendations" })' = Recorded({ "recommendations" })

\* C21: each fetch path keeps its own loading and error state: a success,
\* a failure or an error-clearing step of one path (users, interactions,
\* recommendations, interaction summary, category counts) leaves the
\* loading flag, the data and the recorded error message of every other
\* path as they were.
C21_PathsKeepTheirOwnState ==
  [][/\ (\E ok \in BOOLEAN : DashUsersResolve(ok)) => (CategorySame /\ SummarySame)
     /\ (\E i \in LiveFetches(categoryFetches), ok \in BOOLEAN, data \in Summaries :
           CategoryResponse(i, ok, data)) => (DashUsersSame /\ SummarySame)
     /\ (\E i \in LiveFetches(summaryFetches), ok \in BOOLEAN :
           SummaryResponse(i, ok)) => (DashUsersSame /\ CategorySame)
     /\ SectionChange("userInteraction") => DashUsersSame
     /\ SectionChange("categoryCounts") => (DashUsersSame /\ CategorySame)
     /\ (\E u \in Users \cup { NoUser } : DashUserChange(u))
          => (DashUsersSame /\ CategorySame)
     /\ (\E ok \in BOOLEAN : UsersResolve(ok))
          => (InteractionsSame /\ RecommendationsSame)
     /\ ((\E l \in listeners : ListenerError(l) \/ \E raw \in stored : Notify(l, raw))
           \/ \E i \in DOMAIN tasks, b \in 1..MaxBatches, ok \in BOOLEAN :
                BatchSettles(i, b, ok))
          => (PageUsersSame /\ RecommendationsSame)
     /\ (\E i \in DOMAIN recommendations, ok \in BOOLEAN : RecommendationsSettle(i, ok))
          => (PageUsersSame /\ InteractionsSame)]_vars

====
